---- MODULE Spec2Model ----
(***************************************************************************)
(* The S3 Control sweepers of internal/service/s3control/sweep.go: the     *)
(* four registered sweepers, each discovery function as a sequence of      *)
(* steps around its backend calls (client acquisition, one list call per   *)
(* page, one delete call per Sweepable), and the harness that runs them    *)
(* in the order their declared dependencies allow.                         *)
(***************************************************************************)
EXTENDS Naturals, Sequences, FiniteSets

(* ------------------------------ bounds --------------------------------- *)

\* The largest number of list calls the backend answers in one invocation,
\* when one sweeper is requested.
MaxPages == 2

\* The same, when two sweepers are requested.
MaxPagesPair == 1

\* The largest number of resources of one kind in the account, when one
\* sweeper is requested.
MaxItems == 3

\* The largest number of resources of one kind in the account, when two
\* sweepers are requested.
MaxItemsPair == 1

\* The largest number of resources of one kind in the account, where
\* termination is checked.
MaxItemsFair == 2

(* ----------------------------- registry -------------------------------- *)

AP == "aws_s3_access_point"

MRAP == "aws_s3control_multi_region_access_point"

OLAP == "aws_s3control_object_lambda_access_point"

SLC == "aws_s3control_storage_lens_configuration"

\* The names init registers.
Kinds == {AP, MRAP, OLAP, SLC}

DependenciesNone(k) == {}

\* Sweeper.Dependencies of each registered entry.
Dependencies(k) == IF k = AP THEN {OLAP} ELSE {}

\* Sweeper.F of each registered entry.
F(k) ==
  CASE k = AP   -> "sweepAccessPoints"
    [] k = MRAP -> "sweepMultiRegionAccessPoints"
    [] k = OLAP -> "sweepObjectLambdaAccessPoints"
    [] k = SLC  -> "sweepStorageLensConfigurations"

\* The resource kind as the functions' messages name it.
Label(k) ==
  CASE k = AP   -> "S3 Access Points"
    [] k = MRAP -> "S3 Multi-Region Access Points"
    [] k = OLAP -> "S3 Object Lambda Access Points"
    [] k = SLC  -> "S3 Storage Lens Configurations"

\* One resource.AddTestSweepers(key, &resource.Sweeper{Name: name, ...}) call.
SweeperEntry(key, name) ==
  [key |-> key,
   sweeper |-> [Name |-> name, F |-> F(key), Dependencies |-> Dependencies(key)]]

RegistrationsMisnamed ==
  << SweeperEntry(AP, "aws_s3_access_point"),
     SweeperEntry(MRAP, "aws_s3control_multi_region_access_point"),
     SweeperEntry(OLAP, "aws_s3control_object_lambda_access_point"),
     SweeperEntry(SLC, "aws_s3control_object_lambda_access_point") >>

\* The calls init makes, in order.
Registrations ==
  << SweeperEntry(AP, "aws_s3_access_point"),
     SweeperEntry(MRAP, "aws_s3control_multi_region_access_point"),
     SweeperEntry(OLAP, "aws_s3control_object_lambda_access_point"),
     SweeperEntry(SLC, "aws_s3control_storage_lens_configuration") >>

\* The registry the calls regs leave: each key with the Sweeper given for it.
RegistryOf(regs) ==
  [n \in {regs[i].key : i \in 1..Len(regs)} |->
     regs[CHOOSE i \in 1..Len(regs) : regs[i].key = n].sweeper]

(* ------------------------------ regions -------------------------------- *)

USWest2RegionID == "us-west-2"

USGovEast1RegionID == "us-gov-east-1"

USGovWest1RegionID == "us-gov-west-1"

\* The regions a run may be given: the three the code names and one other.
Regions == {USWest2RegionID, USGovEast1RegionID, USGovWest1RegionID, "us-east-1"}

RegionEligibleGovWestOpen(k, r) ==
  CASE k = MRAP -> r = USWest2RegionID
    [] k = SLC  -> r # USGovEast1RegionID
    [] OTHER    -> TRUE

\* The region checks at the head of the discovery functions: TRUE when the
\* function goes on to acquire a client.
RegionEligible(k, r) ==
  CASE k = MRAP -> r = USWest2RegionID
    [] k = SLC  -> ~(r = USGovEast1RegionID \/ r = USGovWest1RegionID)
    [] OTHER    -> TRUE

(* ------------------------------- errors -------------------------------- *)

\* An error value: msg names the failure, kind and region are the context
\* formatted into it, detail is a cause formatted with %s, wraps the causes
\* it wraps (%w, or the members of a multierror).
Err(msg, kind, r, detail, wraps) ==
  [msg |-> msg, kind |-> kind, region |-> r, detail |-> detail, wraps |-> wraps]

Nil == Err("nil", "", "", "", <<>>)

Leaf(msg, detail) == Err(msg, "", "", detail, <<>>)

\* The errors a list call may return, and the one client acquisition may.
\* AccessDenied is the one SkipSweepError accepts.
AccessDenied == Leaf("AccessDenied", "")

Throttling == Leaf("ThrottlingException", "")

InternalError == Leaf("InternalError", "")

ListErrors == {AccessDenied, Throttling, InternalError}

ClientError == Leaf("no valid credential sources", "")

\* awsv2.SkipSweepError: the errors that mean the operation is unsupported
\* or not permitted in this account and region.
SkipSweepError(err) == err = AccessDenied

\* (*multierror.Error).ErrorOrNil of an accumulator holding errs.
ErrorOrNil(errs) ==
  IF errs = <<>> THEN Nil ELSE Err("multierror", "", "", "", errs)

RECURSIVE Contains(_, _)
\* errors.Is along %w and multierror members.
Contains(e, x) ==
  \/ e = x
  \/ \E i \in 1..Len(e.wraps) : Contains(e.wraps[i], x)

(* ------------------------- items and identifiers ----------------------- *)

AccountID == "123456789012"

MalformedArn == "not-an-arn"

DefaultDashboard == "default-account-dashboard"

\* What a list call of kind k may hold: for access points the ARN of access
\* point "a" (written by its name) or a string that is no ARN.
Items(k) ==
  CASE k = AP  -> {"a", MalformedArn}
    [] k = SLC -> {"cfg", DefaultDashboard}
    [] OTHER   -> {"a", "b"}

\* AccessPointCreateResourceID: the identifier of an ARN, or an error.
AccessPointCreateResourceID(arn) ==
  IF arn = MalformedArn
    THEN [id |-> <<>>, err |-> Leaf("unable to parse S3 Access Point ARN", arn)]
    ELSE [id |-> <<AccountID, arn>>, err |-> Nil]

\* MultiRegionAccessPointCreateResourceID, ObjectLambdaAccessPointCreateResourceID,
\* StorageLensConfigurationCreateResourceID: account id and name, joined.
CreateResourceID(accountID, name) == <<accountID, name>>

\* sweep.NewSweepResource(r, d, client) with d's id set.
NewSweepResource(k, id) == [kind |-> k, id |-> id]

(* ------------------------------- state --------------------------------- *)

VARIABLES
  region,          \* the region the harness sweeps
  toRun,           \* the sweepers the harness runs: those requested and their dependencies
  account,         \* per kind, the number of resources of that kind in the account
  pageLimit,       \* the number of list calls the backend answers in one invocation
  sweeperFuncs,    \* the registry: per registered name, its Sweeper
  sweeperRunList,  \* harness: per kind, "unset" until its function returned, then "ok" or "failed"
  pc,              \* per kind, where its discovery function stands
  firstPage,       \* paginator: no page fetched yet
  nextToken,       \* paginator: the last page carried a continuation token
  listed,          \* per kind, the pages the list calls returned, in order
  sweepResources,  \* per kind, the Sweepables accumulated
  sweeperErrs,     \* per kind, the members of the multierror accumulator
  orchArg,         \* per kind, the Sweepables the orchestrator was invoked with
  attempted,       \* per kind, the Sweepables whose deletion the orchestrator attempted
  orchErrs,        \* per kind, the deletion errors the orchestrator collected
  ret,             \* per kind, the error value the function returned
  calls,           \* per kind, the calls made: client, list, orchestrator, delete
  occurred         \* per kind, every error a call or an identifier build returned, in order

vars == <<region, toRun, account, pageLimit, sweeperFuncs, sweeperRunList, pc, firstPage, nextToken, listed,
          sweepResources, sweeperErrs, orchArg, attempted, orchErrs, ret, calls, occurred>>

harnessVars == <<region, toRun, account, pageLimit, sweeperFuncs>>

NoCalls == [client |-> 0, list |-> 0, orchestrator |-> 0, delete |-> 0]

\* The sweepers a request for the sweepers in S runs: S and their dependencies.
WithDependencies(S) == S \cup UNION {Dependencies(k) : k \in S}

\* A function's locals before it is invoked, and after the harness took its result.
Fresh(k) ==
  /\ firstPage' = [firstPage EXCEPT ![k] = TRUE]
  /\ nextToken' = [nextToken EXCEPT ![k] = FALSE]
  /\ listed' = [listed EXCEPT ![k] = <<>>]
  /\ sweepResources' = [sweepResources EXCEPT ![k] = <<>>]
  /\ sweeperErrs' = [sweeperErrs EXCEPT ![k] = <<>>]
  /\ orchArg' = [orchArg EXCEPT ![k] = <<>>]
  /\ attempted' = [attempted EXCEPT ![k] = <<>>]
  /\ orchErrs' = [orchErrs EXCEPT ![k] = <<>>]
  /\ ret' = [ret EXCEPT ![k] = Nil]
  /\ calls' = [calls EXCEPT ![k] = NoCalls]
  /\ occurred' = [occurred EXCEPT ![k] = <<>>]

InitLocals ==
  /\ sweeperFuncs = RegistryOf(Registrations)
  /\ sweeperRunList = [k \in Kinds |-> "unset"]
  /\ pc = [k \in Kinds |-> "idle"]
  /\ firstPage = [k \in Kinds |-> TRUE]
  /\ nextToken = [k \in Kinds |-> FALSE]
  /\ listed = [k \in Kinds |-> <<>>]
  /\ sweepResources = [k \in Kinds |-> <<>>]
  /\ sweeperErrs = [k \in Kinds |-> <<>>]
  /\ orchArg = [k \in Kinds |-> <<>>]
  /\ attempted = [k \in Kinds |-> <<>>]
  /\ orchErrs = [k \in Kinds |-> <<>>]
  /\ ret = [k \in Kinds |-> Nil]
  /\ calls = [k \in Kinds |-> NoCalls]
  /\ occurred = [k \in Kinds |-> <<>>]

\* One sweeper is requested (-sweep-run): it runs after its dependencies.
Init ==
  /\ region \in Regions
  /\ \E k \in Kinds : toRun = WithDependencies({k})
  /\ account \in [Kinds -> 0..MaxItems]
  /\ pageLimit = MaxPages
  /\ \A k \in Kinds \ toRun : account[k] = 0
  /\ InitLocals

\* One sweeper is requested, against an account small enough to check that
\* every invocation ends.
InitFair ==
  /\ region \in Regions
  /\ \E k \in Kinds : toRun = WithDependencies({k})
  /\ account \in [Kinds -> 0..MaxItemsFair]
  /\ pageLimit = MaxPages
  /\ \A k \in Kinds \ toRun : account[k] = 0
  /\ InitLocals

\* Two sweepers are requested, against an account that holds little: they run
\* after their dependencies, and may run at the same time.
InitPair ==
  /\ region \in Regions
  /\ \E k1 \in Kinds : \E k2 \in Kinds \ {k1} : toRun = WithDependencies({k1, k2})
  /\ account \in [Kinds -> 0..MaxItemsPair]
  /\ pageLimit = MaxPagesPair
  /\ \A k \in Kinds \ toRun : account[k] = 0
  /\ InitLocals

(* ------------------------- the page loop's body ------------------------ *)

RECURSIVE SeqsOfLen(_, _)
\* The sequences of length n over S.
SeqsOfLen(S, n) ==
  IF n = 0 THEN {<<>>}
  ELSE {Append(s, x) : s \in SeqsOfLen(S, n - 1), x \in S}

RECURSIVE Flatten(_)
\* The items of a sequence of pages, in listing order.
Flatten(ps) == IF ps = <<>> THEN <<>> ELSE Head(ps) \o Flatten(Tail(ps))

LoopBodyKeepsLastError(k, v, acc) ==
  CASE k = AP ->
         LET b == AccessPointCreateResourceID(v) IN
         IF b.err # Nil
           THEN [acc EXCEPT !.errs = <<b.err>>]
           ELSE [acc EXCEPT !.res = Append(@, NewSweepResource(k, b.id))]
    [] k = SLC ->
         IF v = DefaultDashboard
           THEN acc
           ELSE [acc EXCEPT !.res = Append(@, NewSweepResource(k, CreateResourceID(AccountID, v)))]
    [] OTHER ->
         [acc EXCEPT !.res = Append(@, NewSweepResource(k, CreateResourceID(AccountID, v)))]

LoopBodyNoContinue(k, v, acc) ==
  CASE k = AP ->
         LET b == AccessPointCreateResourceID(v) IN
         IF b.err # Nil
           THEN [res |-> Append(acc.res, NewSweepResource(k, b.id)),
                 errs |-> Append(acc.errs, b.err)]
           ELSE [acc EXCEPT !.res = Append(@, NewSweepResource(k, b.id))]
    [] k = SLC ->
         IF v = DefaultDashboard
           THEN acc
           ELSE [acc EXCEPT !.res = Append(@, NewSweepResource(k, CreateResourceID(AccountID, v)))]
    [] OTHER ->
         [acc EXCEPT !.res = Append(@, NewSweepResource(k, CreateResourceID(AccountID, v)))]

LoopBodyNoDashboardCheck(k, v, acc) ==
  CASE k = AP ->
         LET b == AccessPointCreateResourceID(v) IN
         IF b.err # Nil
           THEN [acc EXCEPT !.errs = Append(@, b.err)]
           ELSE [acc EXCEPT !.res = Append(@, NewSweepResource(k, b.id))]
    [] OTHER ->
         [acc EXCEPT !.res = Append(@, NewSweepResource(k, CreateResourceID(AccountID, v)))]

\* One pass of the loop over a page's items, for item v: acc.res is
\* sweepResources and acc.errs the members of sweeperErrs.
LoopBody(k, v, acc) ==
  CASE k = AP ->
         LET b == AccessPointCreateResourceID(v) IN
         IF b.err # Nil
           THEN [acc EXCEPT !.errs = Append(@, b.err)]
           ELSE [acc EXCEPT !.res = Append(@, NewSweepResource(k, b.id))]
    [] k = SLC ->
         IF v = DefaultDashboard
           THEN acc
           ELSE [acc EXCEPT !.res = Append(@, NewSweepResource(k, CreateResourceID(AccountID, v)))]
    [] OTHER ->
         [acc EXCEPT !.res = Append(@, NewSweepResource(k, CreateResourceID(AccountID, v)))]

RECURSIVE PageLoop(_, _, _)
\* The loop over a page's items, in order.
PageLoop(k, items, acc) ==
  IF items = <<>> THEN acc
  ELSE PageLoop(k, Tail(items), LoopBody(k, Head(items), acc))

(* ------------------------- what the functions return ------------------- *)

\* fmt.Errorf("error getting client: %s", err)
ClientErrorResult(err) == Err("error getting client", "", "", err.msg, <<>>)

SkipResultNil(k, errs) == Nil

\* The return on a list error that SkipSweepError accepts.
SkipResult(k, errs) == IF k = AP THEN ErrorOrNil(errs) ELSE Nil

FatalResultUnwrapped(k, r, err) == Err("error listing", Label(k), r, err.msg, <<>>)

\* fmt.Errorf("error listing <kind> (%s): %w", region, err)
FatalResult(k, r, err) == Err("error listing", Label(k), r, "", <<err>>)

\* fmt.Errorf("error sweeping <kind> (%s): %w", region, err)
SweepingError(k, r, err) == Err("error sweeping", Label(k), r, "", <<err>>)

SweepResultDropsOrchestratorError(k, r, errs, err) ==
  IF k = AP THEN ErrorOrNil(errs) ELSE Nil

\* The return after sweep.SweepOrchestrator returned err.
SweepResult(k, r, errs, err) ==
  IF k = AP
    THEN ErrorOrNil(IF err # Nil THEN Append(errs, SweepingError(k, r, err)) ELSE errs)
    ELSE IF err # Nil THEN SweepingError(k, r, err) ELSE Nil

(* ----------------------------- the paginator --------------------------- *)

HasMorePagesAlways(k) == TRUE

\* (*Paginator).HasMorePages
HasMorePages(k) == firstPage[k] \/ nextToken[k]

\* The number of resources the list calls have returned.
ListedCount(k) == Len(Flatten(listed[k]))

(* ------------------------------ the harness ---------------------------- *)

\* Every declared dependency of k has returned and the harness has its result.
DependenciesReturned(k) ==
  \A d \in sweeperFuncs[k].Dependencies : sweeperRunList[d] # "unset"

\* The harness invokes F(region) of a sweeper once its dependencies have
\* returned; the function checks the region before anything else.
Start(k) ==
  /\ k \in toRun
  /\ pc[k] = "idle"
  /\ DependenciesReturned(k)
  /\ IF RegionEligible(k, region)
       THEN pc' = [pc EXCEPT ![k] = "client"]
       ELSE pc' = [pc EXCEPT ![k] = "returned"]
  /\ UNCHANGED <<harnessVars, sweeperRunList, firstPage, nextToken, listed,
                 sweepResources, sweeperErrs, orchArg, attempted, orchErrs, ret,
                 calls, occurred>>

\* The harness takes the function's result; the function's locals are gone.
Collect(k) ==
  /\ pc[k] = "returned"
  /\ sweeperRunList' = [sweeperRunList EXCEPT ![k] = IF ret[k] = Nil THEN "ok" ELSE "failed"]
  /\ pc' = [pc EXCEPT ![k] = "done"]
  /\ Fresh(k)
  /\ UNCHANGED harnessVars

(* ------------------------- the discovery functions --------------------- *)

AcquireClientIgnoresError(k) ==
  /\ pc[k] = "client"
  /\ calls' = [calls EXCEPT ![k].client = @ + 1]
  /\ pc' = [pc EXCEPT ![k] = "list"]
  /\ \/ UNCHANGED occurred
     \/ occurred' = [occurred EXCEPT ![k] = Append(@, ClientError)]
  /\ UNCHANGED <<harnessVars, sweeperRunList, firstPage, nextToken, listed,
                 sweepResources, sweeperErrs, orchArg, attempted, orchErrs, ret>>

\* sweep.SharedRegionalSweepClient, and the return when it fails.
AcquireClient(k) ==
  /\ pc[k] = "client"
  /\ calls' = [calls EXCEPT ![k].client = @ + 1]
  /\ \/ /\ pc' = [pc EXCEPT ![k] = "list"]
        /\ UNCHANGED <<ret, occurred>>
     \/ /\ pc' = [pc EXCEPT ![k] = "returned"]
        /\ ret' = [ret EXCEPT ![k] = ClientErrorResult(ClientError)]
        /\ occurred' = [occurred EXCEPT ![k] = Append(@, ClientError)]
  /\ UNCHANGED <<harnessVars, sweeperRunList, firstPage, nextToken, listed,
                 sweepResources, sweeperErrs, orchArg, attempted, orchErrs>>

OnSkipBreak(k, err) ==
  /\ pc' = pc
  /\ firstPage' = [firstPage EXCEPT ![k] = FALSE]
  /\ nextToken' = [nextToken EXCEPT ![k] = FALSE]
  /\ occurred' = [occurred EXCEPT ![k] = Append(@, err)]
  /\ UNCHANGED <<ret, listed, sweepResources, sweeperErrs>>

\* NextPage returned an error that SkipSweepError accepts.
OnSkip(k, err) ==
  /\ pc' = [pc EXCEPT ![k] = "returned"]
  /\ ret' = [ret EXCEPT ![k] = SkipResult(k, sweeperErrs[k])]
  /\ occurred' = [occurred EXCEPT ![k] = Append(@, err)]
  /\ UNCHANGED <<firstPage, nextToken, listed, sweepResources, sweeperErrs>>

OnFatalBreak(k, err) ==
  /\ pc' = pc
  /\ firstPage' = [firstPage EXCEPT ![k] = FALSE]
  /\ nextToken' = [nextToken EXCEPT ![k] = FALSE]
  /\ sweeperErrs' = [sweeperErrs EXCEPT ![k] = Append(@, FatalResult(k, region, err))]
  /\ occurred' = [occurred EXCEPT ![k] = Append(@, err)]
  /\ UNCHANGED <<ret, listed, sweepResources>>

OnFatalRetry(k, err) ==
  /\ pc' = pc
  /\ occurred' = [occurred EXCEPT ![k] = Append(@, err)]
  /\ UNCHANGED <<ret, firstPage, nextToken, listed, sweepResources, sweeperErrs>>

\* NextPage returned any other error.
OnFatal(k, err) ==
  /\ pc' = [pc EXCEPT ![k] = "returned"]
  /\ ret' = [ret EXCEPT ![k] = FatalResult(k, region, err)]
  /\ occurred' = [occurred EXCEPT ![k] = Append(@, err)]
  /\ UNCHANGED <<firstPage, nextToken, listed, sweepResources, sweeperErrs>>

\* NextPage returned a page of items, with a continuation token or without.
OnPage(k, items, more) ==
  LET acc == PageLoop(k, items, [res |-> sweepResources[k], errs |-> sweeperErrs[k]])
      new == SubSeq(acc.errs, Len(sweeperErrs[k]) + 1, Len(acc.errs))
  IN
  /\ firstPage' = [firstPage EXCEPT ![k] = FALSE]
  /\ nextToken' = [nextToken EXCEPT ![k] = more]
  /\ listed' = [listed EXCEPT ![k] = Append(@, items)]
  /\ sweepResources' = [sweepResources EXCEPT ![k] = acc.res]
  /\ sweeperErrs' = [sweeperErrs EXCEPT ![k] = acc.errs]
  /\ occurred' = [occurred EXCEPT ![k] = @ \o new]
  /\ UNCHANGED <<pc, ret>>

\* One pass of the loop over the paginator: the list call and what follows it.
NextPage(k) ==
  /\ pc[k] = "list"
  /\ HasMorePages(k)
  /\ calls[k].list < pageLimit
  /\ calls' = [calls EXCEPT ![k].list = @ + 1]
  /\ \/ \E err \in ListErrors :
          IF SkipSweepError(err) THEN OnSkip(k, err) ELSE OnFatal(k, err)
     \/ \E n \in 0..(account[k] - ListedCount(k)) :
          \E items \in SeqsOfLen(Items(k), n) :
            \E more \in BOOLEAN :
              /\ more => calls[k].list + 1 < pageLimit
              /\ ~more => n = account[k] - ListedCount(k)
              /\ OnPage(k, items, more)
  /\ UNCHANGED <<harnessVars, sweeperRunList, orchArg, attempted, orchErrs>>

InvokeOrchestratorAfterFirstPage(k) ==
  /\ pc[k] = "list"
  /\ ~firstPage[k]
  /\ pc' = [pc EXCEPT ![k] = "sweep"]
  /\ orchArg' = [orchArg EXCEPT ![k] = sweepResources[k]]
  /\ calls' = [calls EXCEPT ![k].orchestrator = @ + 1]
  /\ UNCHANGED <<harnessVars, sweeperRunList, firstPage, nextToken, listed,
                 sweepResources, sweeperErrs, attempted, orchErrs, ret, occurred>>

\* The loop ended: sweep.SweepOrchestrator(ctx, sweepResources) is called.
InvokeOrchestrator(k) ==
  /\ pc[k] = "list"
  /\ ~HasMorePages(k)
  /\ pc' = [pc EXCEPT ![k] = "sweep"]
  /\ orchArg' = [orchArg EXCEPT ![k] = sweepResources[k]]
  /\ calls' = [calls EXCEPT ![k].orchestrator = @ + 1]
  /\ UNCHANGED <<harnessVars, sweeperRunList, firstPage, nextToken, listed,
                 sweepResources, sweeperErrs, attempted, orchErrs, ret, occurred>>

(* ---------------------------- the orchestrator ------------------------- *)

\* The error of a Sweepable's failed deletion.
DeleteError(s) == Leaf("error deleting", s.id[2])

PendingStopsAtFailure(k) ==
  IF orchErrs[k] # <<>> THEN <<>>
  ELSE SubSeq(orchArg[k], Len(attempted[k]) + 1, Len(orchArg[k]))

\* The Sweepables the orchestrator has yet to attempt.
Pending(k) == SubSeq(orchArg[k], Len(attempted[k]) + 1, Len(orchArg[k]))

\* The orchestrator invokes the next Sweepable's deletion, which succeeds or fails.
Delete(k) ==
  /\ pc[k] = "sweep"
  /\ Pending(k) # <<>>
  /\ LET s == Head(Pending(k)) IN
     /\ attempted' = [attempted EXCEPT ![k] = Append(@, s)]
     /\ calls' = [calls EXCEPT ![k].delete = @ + 1]
     /\ \/ UNCHANGED <<orchErrs, occurred>>
        \/ /\ orchErrs' = [orchErrs EXCEPT ![k] = Append(@, DeleteError(s))]
           /\ occurred' = [occurred EXCEPT ![k] = Append(@, DeleteError(s))]
  /\ UNCHANGED <<harnessVars, sweeperRunList, pc, firstPage, nextToken, listed,
                 sweepResources, sweeperErrs, orchArg, ret>>

\* The orchestrator's aggregate of the deletion errors errs.
OrchestratorResult(errs) == ErrorOrNil(errs)

\* The orchestrator returns, and the function returns with it.
SweepReturn(k) ==
  /\ pc[k] = "sweep"
  /\ Pending(k) = <<>>
  /\ pc' = [pc EXCEPT ![k] = "returned"]
  /\ ret' = [ret EXCEPT ![k] =
               SweepResult(k, region, sweeperErrs[k], OrchestratorResult(orchErrs[k]))]
  /\ UNCHANGED <<harnessVars, sweeperRunList, firstPage, nextToken, listed,
                 sweepResources, sweeperErrs, orchArg, attempted, orchErrs, calls,
                 occurred>>

(* ---------------------------- specifications --------------------------- *)

Next ==
  \E k \in Kinds :
    \/ Start(k)
    \/ AcquireClient(k)
    \/ NextPage(k)
    \/ InvokeOrchestrator(k)
    \/ Delete(k)
    \/ SweepReturn(k)
    \/ Collect(k)

\* One requested sweeper, run after its dependencies.
Spec == Init /\ [][Next]_vars

\* Two requested sweepers, run concurrently where their dependencies allow.
SpecPair == InitPair /\ [][Next]_vars

\* A step of the discovery function of kind k: a call it makes returns.
FunctionStep(k) ==
  \/ AcquireClient(k)
  \/ NextPage(k)
  \/ InvokeOrchestrator(k)
  \/ Delete(k)
  \/ SweepReturn(k)

\* One requested sweeper, where every call an invoked function makes returns.
SpecFair == InitFair /\ [][Next]_vars /\ \A k \in Kinds : WF_vars(FunctionStep(k))

(* ------------------------- what the claims speak of -------------------- *)

\* The list errors that are not of the Skip class.
FatalListErrors == {Throttling, InternalError}

\* The errors of occurred[k] that satisfy P, in order.
OccurredIn(k, S) == SelectSeq(occurred[k], LAMBDA e : e \in S)

BuildError == Leaf("unable to parse S3 Access Point ARN", MalformedArn)

IsDeleteError(e) == e.msg = "error deleting"

\* The function of kind k has returned and the harness has not yet taken the result.
Returned(k) == pc[k] = "returned"

\* The malformed items among items, and the well-formed ones, in order.
MalformedOf(items) == SelectSeq(items, LAMBDA v : v = MalformedArn)

WellFormedOf(items) == SelectSeq(items, LAMBDA v : v # MalformedArn)

RECURSIVE SweepablesOf(_, _)
\* One Sweepable of kind k per item of items, in order.
SweepablesOf(k, items) ==
  IF items = <<>> THEN <<>>
  ELSE <<[kind |-> k, id |-> <<AccountID, Head(items)>>]>> \o SweepablesOf(k, Tail(items))

RECURSIVE Reports(_, _)
\* e is x, wraps x at some depth, or quotes x's message.
Reports(e, x) ==
  \/ e = x
  \/ e.detail = x.msg
  \/ \E i \in 1..Len(e.wraps) : Reports(e.wraps[i], x)

(* --------------------------------- C1 ---------------------------------- *)

\* C1 as stated: when a function has returned after a fatal list error that
\* followed successful pages which left Sweepables accumulated, the
\* orchestrator was invoked on those Sweepables and attempted them all.
C1_OrchestratorRunsAfterFatal ==
  \A k \in Kinds :
    (/\ Returned(k)
     /\ OccurredIn(k, FatalListErrors) # <<>>
     /\ listed[k] # <<>>
     /\ sweepResources[k] # <<>>)
      => /\ calls[k].orchestrator = 1
         /\ orchArg[k] = sweepResources[k]
         /\ attempted[k] = orchArg[k]

\* C1 amended: a fatal list error ends the function at once: it has returned,
\* the orchestrator was not invoked and no deletion was attempted, whatever
\* Sweepables the earlier pages accumulated.
C1_FatalReturnsWithoutSweeping ==
  \A k \in Kinds :
    OccurredIn(k, FatalListErrors) # <<>>
      => /\ Returned(k)
         /\ calls[k].orchestrator = 0
         /\ calls[k].delete = 0
         /\ attempted[k] = <<>>

\* A fatal list error on a later page, with Sweepables accumulated before it.
C1_Witness ==
  \E k \in Kinds :
    /\ Returned(k)
    /\ OccurredIn(k, FatalListErrors) # <<>>
    /\ listed[k] # <<>>
    /\ sweepResources[k] # <<>>

(* --------------------------------- C2 ---------------------------------- *)

\* C2: the error a function returns reports every failure of the invocation:
\* the client error, each identifier build error, the fatal list error and
\* each deletion error.
C2_EveryFailureReturned ==
  \A k \in Kinds :
    Returned(k) =>
      \A i \in 1..Len(occurred[k]) :
        occurred[k][i] # AccessDenied => Reports(ret[k], occurred[k][i])

(* --------------------------------- C3 ---------------------------------- *)

\* C3 as stated: after a Skip-class list error the function returns nil,
\* whatever happened on earlier pages.
C3_SkipReturnsNil ==
  \A k \in Kinds :
    (Returned(k) /\ OccurredIn(k, {AccessDenied}) # <<>>) => ret[k] = Nil

\* C3 amended: a Skip-class list error on any page ends the function at once
\* without invoking the orchestrator; the three functions that keep no error
\* accumulator return nil, and sweepAccessPoints returns the aggregate of the
\* build errors recorded so far, which is nil when there are none.
C3_SkipReturn ==
  \A k \in Kinds :
    OccurredIn(k, {AccessDenied}) # <<>>
      => /\ Returned(k)
         /\ calls[k].orchestrator = 0
         /\ LET built == OccurredIn(k, {BuildError}) IN
            ret[k] = IF k = AP /\ built # <<>>
                       THEN Err("multierror", "", "", "", built)
                       ELSE Nil

\* sweepAccessPoints skipped on a later page with a build error recorded.
C3_Witness ==
  /\ Returned(AP)
  /\ OccurredIn(AP, {AccessDenied}) # <<>>
  /\ OccurredIn(AP, {BuildError}) # <<>>
  /\ Len(listed[AP]) >= 1

(* --------------------------------- C4 ---------------------------------- *)

\* C4: after a list error that is not of the Skip class the function has
\* returned an error that is not nil, wraps that very error, and carries the
\* resource kind and the region.
C4_FatalIsWrappedWithContext ==
  \A k \in Kinds :
    \A e \in FatalListErrors :
      OccurredIn(k, {e}) # <<>>
        => /\ Returned(k)
           /\ ret[k] # Nil
           /\ Contains(ret[k], e)
           /\ ret[k].kind = Label(k)
           /\ ret[k].region = region

\* A fatal list error on the second page of a storage lens listing.
C4_Witness ==
  /\ Returned(SLC)
  /\ OccurredIn(SLC, {InternalError}) # <<>>
  /\ Len(listed[SLC]) = 1

(* --------------------------------- C5 ---------------------------------- *)

\* The regions the claim names as ineligible for a kind.
C5_Ineligible(k, r) ==
  \/ k = MRAP /\ r # "us-west-2"
  \/ k = SLC /\ r \in {"us-gov-east-1", "us-gov-west-1"}

\* C5: in an ineligible region an invoked function has returned nil and made
\* no call at all; in every other case (any region for access points and
\* object lambda access points) a function past its first step has asked
\* for the client.
C5_RegionGating ==
  \A k \in Kinds :
    pc[k] \notin {"idle", "done"} =>
      IF C5_Ineligible(k, region)
        THEN Returned(k) /\ ret[k] = Nil /\ calls[k] = NoCalls /\ occurred[k] = <<>>
        ELSE pc[k] = "client" \/ calls[k].client = 1

\* The storage lens function invoked in us-gov-west-1 has returned.
C5_Witness ==
  /\ region = "us-gov-west-1"
  /\ Returned(SLC)
  /\ C5_Ineligible(SLC, region)

(* --------------------------------- C6 ---------------------------------- *)

\* C6: the sweep of aws_s3_access_point is not started until the sweep of
\* aws_s3control_object_lambda_access_point has returned, with or without an
\* error, and the harness has taken its result.
C6_DependencyOrdering ==
  pc["aws_s3_access_point"] # "idle"
    => /\ pc["aws_s3control_object_lambda_access_point"] = "done"
       /\ sweeperRunList["aws_s3control_object_lambda_access_point"] \in {"ok", "failed"}

\* The access point sweep lists while the multi-region sweep, which it has no
\* dependency relation with, is listing too; the object lambda sweep had failed.
C6_Witness ==
  /\ pc[AP] = "list"
  /\ pc[MRAP] = "list"
  /\ sweeperRunList[OLAP] = "failed"

(* --------------------------------- C7 ---------------------------------- *)

\* Every list call of an invocation of kind k returned a page, and the paginator
\* reported no more pages.
C7_AllPagesFetched(k) ==
  /\ pc[k] \in {"sweep", "returned"}
  /\ calls[k].list >= 1
  /\ OccurredIn(k, ListErrors) = <<>>

\* C7 as stated: when every page fetch succeeded the orchestrator is invoked
\* once, with one Sweepable per listed item whose identifier builds, in
\* listing order.
C7_OneSweepablePerValidItem ==
  \A k \in Kinds :
    C7_AllPagesFetched(k)
      => /\ calls[k].orchestrator = 1
         /\ orchArg[k] = SweepablesOf(k, WellFormedOf(Flatten(listed[k])))

\* C7 amended: the same, except that sweepStorageLensConfigurations passes no
\* Sweepable for a listed configuration whose id is default-account-dashboard.
C7_OneSweepablePerValidItemButDashboard ==
  \A k \in Kinds :
    C7_AllPagesFetched(k)
      => /\ calls[k].orchestrator = 1
         /\ orchArg[k] =
              SweepablesOf(k, SelectSeq(WellFormedOf(Flatten(listed[k])),
                                        LAMBDA v : ~(k = SLC /\ v = "default-account-dashboard")))

\* Two pages of access points, a malformed item before a well-formed one on
\* the first: the orchestrator got the two well-formed items.
C7_Witness ==
  /\ C7_AllPagesFetched(AP)
  /\ listed[AP] = << <<MalformedArn, "a">>, <<"a">> >>
  /\ Len(orchArg[AP]) = 2

(* --------------------------------- C8 ---------------------------------- *)

\* C8: in sweepAccessPoints the accumulators hold, after any number of pages,
\* one build error per malformed item listed and one Sweepable per well-formed
\* item listed; and when every page fetch and every deletion succeeded the
\* function returns exactly those build errors, nil when there are none.
C8_BuildErrorsDoNotStopProcessing ==
  LET items == Flatten(listed[AP])
      bad   == MalformedOf(items)
      errs  == [i \in 1..Len(bad) |-> BuildError]
  IN
  /\ pc[AP] = "list" =>
       /\ Len(sweeperErrs[AP]) = Len(bad)
       /\ \A i \in 1..Len(bad) : sweeperErrs[AP][i] = BuildError
       /\ sweepResources[AP] = SweepablesOf(AP, WellFormedOf(items))
  /\ (Returned(AP) /\ C7_AllPagesFetched(AP) /\ orchErrs[AP] = <<>>) =>
       /\ attempted[AP] = SweepablesOf(AP, WellFormedOf(items))
       /\ ret[AP] = IF bad = <<>> THEN Nil ELSE Err("multierror", "", "", "", errs)

\* A malformed item, then a well-formed one on the same page and another on
\* the next page: both were built and swept, and the return holds that one
\* build error.
C8_Witness ==
  /\ Returned(AP)
  /\ listed[AP] = << <<MalformedArn, "a">>, <<"a">> >>
  /\ orchErrs[AP] = <<>>
  /\ Len(attempted[AP]) = 2
  /\ ret[AP].wraps = <<BuildError>>

(* --------------------------------- C9 ---------------------------------- *)

\* C9: when the orchestrator has returned, it attempted the deletion of every
\* Sweepable it was given, in order, and its aggregate holds exactly the
\* deletion errors that occurred; with none (no Sweepable, or no failure) the
\* three functions without an accumulator return nil, and otherwise an error
\* that wraps the aggregate.
C9_NoEarlyAbort ==
  \A k \in Kinds :
    (Returned(k) /\ calls[k].orchestrator = 1) =>
      LET failed == SelectSeq(occurred[k], IsDeleteError) IN
      /\ attempted[k] = orchArg[k]
      /\ calls[k].delete = Len(orchArg[k])
      /\ k # AP =>
           IF failed = <<>>
             THEN ret[k] = Nil
             ELSE /\ Len(ret[k].wraps) = 1
                  /\ ret[k].wraps[1].msg = "multierror"
                  /\ ret[k].wraps[1].wraps = failed
      /\ k = AP =>
           IF failed = <<>>
             THEN \A i \in 1..Len(ret[k].wraps) : ret[k].wraps[i] = BuildError
             ELSE LET last == ret[k].wraps[Len(ret[k].wraps)] IN
                  /\ last.msg = "error sweeping"
                  /\ last.wraps[1].wraps = failed

\* Three Sweepables, the first deletion failed and the two after it were
\* attempted all the same, one of them failing too.
C9_Witness ==
  \E k \in Kinds :
    /\ Returned(k)
    /\ Len(orchArg[k]) = 3
    /\ Len(attempted[k]) = 3
    /\ Len(SelectSeq(occurred[k], IsDeleteError)) = 2
    /\ occurred[k][1] = DeleteError(orchArg[k][1])

(* --------------------------------- C10 --------------------------------- *)

\* C10: a function returns an error that is not nil exactly when a failure
\* occurred in the invocation: a client error, an identifier build error, a
\* fatal list error or a deletion error.
C10_AggregatePresence ==
  \A k \in Kinds :
    Returned(k) =>
      (ret[k] # Nil <=> \E i \in 1..Len(occurred[k]) : occurred[k][i] # AccessDenied)

\* A return that is not nil whose only failure is one failed deletion.
C10_Witness ==
  \E k \in Kinds :
    /\ Returned(k)
    /\ ret[k] # Nil
    /\ Len(occurred[k]) = 1
    /\ IsDeleteError(occurred[k][1])

(* --------------------------------- C11 --------------------------------- *)

\* A Skip-class list error occurred on a page after the first, with Sweepables
\* queued from the earlier pages.
C11_SkippedWithQueue(k) ==
  /\ OccurredIn(k, {AccessDenied}) # <<>>
  /\ listed[k] # <<>>
  /\ sweepResources[k] # <<>>

\* C11 as stated: when a function has returned after a Skip-class list error
\* on a later page, the Sweepables queued from the earlier pages were passed
\* to the orchestrator and their deletion attempted.
C11_QueuedAreSweptAfterSkip ==
  \A k \in Kinds :
    (Returned(k) /\ C11_SkippedWithQueue(k))
      => /\ calls[k].orchestrator = 1
         /\ orchArg[k] = sweepResources[k]
         /\ attempted[k] = orchArg[k]

\* C11 amended: a Skip-class list error on a page after the first ends the
\* function at once: the Sweepables queued from the earlier pages are not
\* passed to the orchestrator and none of them is deleted.
C11_QueuedAreDroppedAfterSkip ==
  \A k \in Kinds :
    C11_SkippedWithQueue(k)
      => /\ Returned(k)
         /\ orchArg[k] = <<>>
         /\ attempted[k] = <<>>
         /\ calls[k].delete = 0

\* A storage lens listing skipped on its second page with a configuration queued.
C11_Witness ==
  /\ Returned(SLC)
  /\ C11_SkippedWithQueue(SLC)
  /\ calls[SLC].list = 2

(* --------------------------------- C12 --------------------------------- *)

\* C12: every step that issues a list call issues exactly one, at a moment
\* when the paginator reports more pages (no page fetched yet, or the last
\* page carried a continuation token) and no earlier list call of the
\* invocation has returned an error.
C12_SequentialPagination ==
  [][\A k \in Kinds :
       calls'[k].list > calls[k].list
         => /\ calls'[k].list = calls[k].list + 1
            /\ firstPage[k] \/ nextToken[k]
            /\ calls[k].list = Len(listed[k])
            /\ OccurredIn(k, ListErrors) = <<>>]_vars

\* The multi-region listing fetched one page and failed on the second: the
\* function has returned after exactly two list calls.
C12_Witness ==
  /\ Returned(MRAP)
  /\ calls[MRAP].list = 2
  /\ Len(listed[MRAP]) = 1
  /\ OccurredIn(MRAP, ListErrors) # <<>>

(* --------------------------------- C13 --------------------------------- *)

\* C13: within one invocation the orchestrator is invoked at most once, at a
\* moment when the paginator reports no more pages, and with everything
\* accumulated; a deletion is issued only after that invocation, and a list
\* call only before it and before any deletion.
C13_OneShotSnapshot ==
  [][\A k \in Kinds :
       /\ calls'[k].orchestrator > calls[k].orchestrator
            => /\ calls[k].orchestrator = 0
               /\ calls'[k].orchestrator = 1
               /\ ~(firstPage[k] \/ nextToken[k])
               /\ orchArg'[k] = sweepResources[k]
       /\ calls'[k].delete > calls[k].delete
            => /\ calls[k].orchestrator = 1
               /\ calls'[k].list = calls[k].list
       /\ calls'[k].list > calls[k].list
            => /\ calls[k].orchestrator = 0
               /\ calls[k].delete = 0]_vars

\* The storage lens function listed two pages, then invoked the orchestrator
\* once, which deleted two configurations; the function has returned.
C13_Witness ==
  /\ Returned(SLC)
  /\ calls[SLC] = [client |-> 1, list |-> 2, orchestrator |-> 1, delete |-> 2]

(* --------------------------------- C14 --------------------------------- *)

\* C14: an invoked discovery function that has not yet returned eventually
\* returns, when every call it makes returns and the backend answers a
\* bounded number of list calls.
C14_EveryInvocationReturns ==
  \A k \in Kinds : (pc[k] \in {"client", "list", "sweep"}) ~> Returned(k)

\* The object lambda function has returned after a list error on its second page.
C14_Witness ==
  /\ Returned(OLAP)
  /\ calls[OLAP].list = 2
  /\ OccurredIn(OLAP, ListErrors) # <<>>

(* --------------------------------- C15 --------------------------------- *)

\* C15: no Sweepable that sweepStorageLensConfigurations accumulates, passes
\* to the orchestrator or has deleted is the configuration
\* default-account-dashboard, and the Sweepables it accumulates are those of
\* every other configuration listed so far, in listing order.
C15_DefaultDashboardIsKept ==
  LET others == SelectSeq(Flatten(listed[SLC]), LAMBDA v : v # "default-account-dashboard")
      NoDashboard(ss) == \A i \in 1..Len(ss) : ss[i].id[2] # "default-account-dashboard"
  IN
  /\ NoDashboard(sweepResources[SLC])
  /\ NoDashboard(orchArg[SLC])
  /\ NoDashboard(attempted[SLC])
  /\ sweepResources[SLC] = SweepablesOf(SLC, others)

\* The default dashboard listed on both pages, another configuration beside it
\* on the first: only the other configuration was deleted.
C15_Witness ==
  /\ Returned(SLC)
  /\ listed[SLC] = << <<"default-account-dashboard", "cfg">>, <<"default-account-dashboard">> >>
  /\ attempted[SLC] = <<[kind |-> SLC, id |-> <<AccountID, "cfg">>]>>

(* --------------------------------- C16 --------------------------------- *)

\* C16: once acquiring the client has failed, the function has returned an
\* error that is not nil and quotes the client error, and it has issued no
\* list call, no orchestrator call and no deletion; and for the two
\* region-gated kinds the region is one they are eligible in.
C16_ClientErrorReturnsBeforeAnyCall ==
  \A k \in Kinds :
    OccurredIn(k, {ClientError}) # <<>>
      => /\ Returned(k)
         /\ ret[k] # Nil
         /\ ret[k].msg = "error getting client"
         /\ ret[k].detail = ClientError.msg
         /\ calls[k] = [client |-> 1, list |-> 0, orchestrator |-> 0, delete |-> 0]
         /\ ~C5_Ineligible(k, region)

\* Acquiring the client failed for the multi-region function, in us-west-2.
C16_Witness ==
  /\ Returned(MRAP)
  /\ region = "us-west-2"
  /\ occurred[MRAP] = <<ClientError>>

(* --------------------------------- C17 --------------------------------- *)

\* The registry holds four entries under four distinct names, each entry's
\* Name is the name it is registered under, every declared dependency is
\* registered, and the names can be put in an order that runs every entry
\* after its dependencies.
C17_WellFormed ==
  /\ Cardinality(DOMAIN sweeperFuncs) = 4
  /\ Len(Registrations) = 4
  /\ \A n \in DOMAIN sweeperFuncs : sweeperFuncs[n].Name = n
  /\ \A n \in DOMAIN sweeperFuncs : sweeperFuncs[n].Dependencies \subseteq DOMAIN sweeperFuncs
  /\ \E rank \in [DOMAIN sweeperFuncs -> 1..4] :
       \A n \in DOMAIN sweeperFuncs :
         \A d \in sweeperFuncs[n].Dependencies : rank[d] < rank[n]

\* C17: the registry is well-formed in every state, and no step of the harness
\* or of a discovery function changes it.
C17_RegistryWellFormedAndFixed ==
  /\ []C17_WellFormed
  /\ [][sweeperFuncs' = sweeperFuncs]_vars

\* The access point sweep has deleted a resource and returned, after the
\* object lambda sweep it depends on; the registry has its four names.
C17_Witness ==
  /\ Returned(AP)
  /\ calls[AP].delete >= 1
  /\ sweeperRunList[OLAP] # "unset"
  /\ DOMAIN sweeperFuncs = {"aws_s3_access_point", "aws_s3control_multi_region_access_point",
                            "aws_s3control_object_lambda_access_point",
                            "aws_s3control_storage_lens_configuration"}

====
